---- MODULE Spec2Model ----
(***************************************************************************)
(* Model of the LINE webhook relay in src/main.py: the routing lookup, the *)
(* staleness gate, the reply generator, the activity logger and the three  *)
(* event handlers (text, sticker, postback), interleaved with the external *)
(* store (mode changes made by a human) and a wall clock.                  *)
(*                                                                         *)
(* Python values of dynamic type are records [t, n, s]: t is the type tag  *)
(* ("none", "int", "str", "other"), n the integer payload, s the payload   *)
(* of an enumeration-like string.  Strings whose content the code takes    *)
(* apart or puts together (postback payloads, completion text, reply text, *)
(* message ids) are sequences of characters / chunks.                      *)
(***************************************************************************)
EXTENDS Integers, Sequences, FiniteSets, TLC

\* ------------------------------------------------------------ bounds
\* number of 1 ms clock ticks the model follows
MaxTicks == 1
\* number of activity records built for one message when the logger is
\* followed on its own
MaxLogs == 2
\* number of text messages followed through the reservation dialogue
MaxTexts == 6

\* ------------------------------------------------------------ python values
PyNone == [t |-> "none", n |-> 0, s |-> ""]
PyInt(k) == [t |-> "int", n |-> k, s |-> ""]
PyStr(x) == [t |-> "str", n |-> 0, s |-> x]
\* a JSON value of another type (list, object): truthy, neither number nor string
PyOther == [t |-> "other", n |-> 0, s |-> ""]

\* isinstance(v, (int, float))
IsNumber(v) == v.t = "int"

\* Python truthiness, as used by `x or default`
Truthy(v) ==
  CASE v.t = "none" -> FALSE
    [] v.t = "int" -> v.n # 0
    [] v.t = "str" -> v.s # ""
    [] OTHER -> TRUE

\* ------------------------------------------------------------ strings as sequences
IsSpace(c) == c \in {" ", "\n", "\t"}

RECURSIVE LStrip(_)
LStrip(s) == IF s # <<>> /\ IsSpace(Head(s)) THEN LStrip(Tail(s)) ELSE s

RECURSIVE RStrip(_)
RStrip(s) ==
  IF s # <<>> /\ IsSpace(s[Len(s)]) THEN RStrip(SubSeq(s, 1, Len(s) - 1)) ELSE s

\* str.strip()
Strip(s) == RStrip(LStrip(s))

\* ------------------------------------------------------------ routing lookup
MODES == {"auto_ai", "owner_manual", "staff_manual"}

\* default = ("auto_ai", "", None)
RoutingDefault == [mode |-> PyStr("auto_ai"), owner |-> PyStr(""), last |-> PyNone]

\* The part of get_line_user_routing inside the try block, given the HTTP
\* exchange resp = [kind, ok, bot_mode, owner_agent_id, last_mode_at_ms]:
\*   kind  "network_error" (requests.get raises), "http_error"
\*         (raise_for_status raises), "bad_json" (resp.json() raises),
\*         "non_object" (JSON that is no dict), "object"
\*   ok    the dict's "ok" entry: "true", "false" or "missing"
\* variant: a mode outside the three is passed on
RoutingCoerceModeAny(m) == IF Truthy(m) THEN m ELSE PyStr("auto_ai")

RoutingCoerceMode(m) ==
  LET mode == IF Truthy(m) THEN m ELSE PyStr("auto_ai")
  IN IF mode.t = "str" /\ mode.s \in MODES THEN mode ELSE PyStr("auto_ai")

RoutingCoerceLast(l) == IF IsNumber(l) THEN PyInt(l.n) ELSE PyNone

RoutingFromResponse(resp) ==
  IF resp.kind \in {"network_error", "http_error", "bad_json"} THEN RoutingDefault
  ELSE IF resp.kind # "object" THEN RoutingDefault
  ELSE IF resp.ok = "false" THEN RoutingDefault
  ELSE [mode |-> RoutingCoerceMode(resp.bot_mode),
        owner |-> IF Truthy(resp.owner_agent_id) THEN resp.owner_agent_id ELSE PyStr(""),
        last |-> RoutingCoerceLast(resp.last_mode_at_ms)]

\* whether get_line_user_routing issues the HTTP request at all
RoutingRequests(urlSet, line_user_id) == urlSet /\ line_user_id # ""

get_line_user_routing(urlSet, line_user_id, resp) ==
  IF ~RoutingRequests(urlSet, line_user_id) THEN RoutingDefault
  ELSE RoutingFromResponse(resp)

\* ------------------------------------------------------------ staleness gate
\* 10 * 1000
STALE_MS == 10000

\* variant: an event exactly 10 s old is already stale
GateStaleAtThreshold(bot_mode, event_timestamp_ms, last_mode_at_ms, now_ms) ==
  IF bot_mode # PyStr("auto_ai") THEN FALSE
  ELSE IF ~IsNumber(event_timestamp_ms) THEN FALSE
  ELSE IF now_ms - event_timestamp_ms.n >= STALE_MS THEN FALSE
  ELSE IF IsNumber(last_mode_at_ms) /\ event_timestamp_ms.n < last_mode_at_ms.n THEN FALSE
  ELSE TRUE

\* variant: the mode is not looked at
GateIgnoringMode(bot_mode, event_timestamp_ms, last_mode_at_ms, now_ms) ==
  IF ~IsNumber(event_timestamp_ms) THEN FALSE
  ELSE IF now_ms - event_timestamp_ms.n > STALE_MS THEN FALSE
  ELSE IF IsNumber(last_mode_at_ms) /\ event_timestamp_ms.n < last_mode_at_ms.n THEN FALSE
  ELSE TRUE

\* variant: the last mode change is not looked at
GateIgnoringModeChange(bot_mode, event_timestamp_ms, last_mode_at_ms, now_ms) ==
  IF bot_mode # PyStr("auto_ai") THEN FALSE
  ELSE IF ~IsNumber(event_timestamp_ms) THEN FALSE
  ELSE IF now_ms - event_timestamp_ms.n > STALE_MS THEN FALSE
  ELSE TRUE

should_auto_reply_text(bot_mode, event_timestamp_ms, last_mode_at_ms, now_ms) ==
  IF bot_mode # PyStr("auto_ai") THEN FALSE
  ELSE IF ~IsNumber(event_timestamp_ms) THEN FALSE
  ELSE IF now_ms - event_timestamp_ms.n > STALE_MS THEN FALSE
  ELSE IF IsNumber(last_mode_at_ms) /\ event_timestamp_ms.n < last_mode_at_ms.n THEN FALSE
  ELSE TRUE

\* ------------------------------------------------------------ reply generator
\* The four fixed reply strings of the source, each one chunk, named by
\* what it says: the apology when no client is configured (line 244), the
\* prompt when the completion is empty (line 264), the apology when the call
\* fails (line 267) and the canned sticker answer (line 535).
NO_CLIENT_TEXT == <<"[cannot reach the AI server]">>
EMPTY_REPLY_TEXT == <<"[cannot think of an answer, tell me more]">>
BUSY_TEXT == <<"[system busy, detailed answer later]">>
STICKER_TEXT == <<"[got your sticker, please add some text]">>

\* what the completion call can do: raise, answer with no content (None), or
\* answer with a content string
CompletionOutcomes ==
  { [kind |-> "error", content |-> <<>>],
    [kind |-> "none", content |-> <<>>],
    [kind |-> "text", content |-> <<" ", "\n">>],
    [kind |-> "text", content |-> <<" ", "O", "K", "\n">>] }

\* variant: an empty completion is passed on as it is
GenerateWithoutFallback(o) ==
  IF o.kind = "error" THEN BUSY_TEXT
  ELSE IF o.kind = "none" THEN BUSY_TEXT
  ELSE Strip(o.content)

\* generate_reply_from_openai once openai_client is known to be set
GenerateFromOutcome(o) ==
  IF o.kind = "error" THEN BUSY_TEXT
  ELSE IF o.kind = "none" THEN BUSY_TEXT
  ELSE IF Strip(o.content) # <<>> THEN Strip(o.content) ELSE EMPTY_REPLY_TEXT

generate_reply_from_openai(clientSet, o) ==
  IF ~clientSet THEN NO_CLIENT_TEXT ELSE GenerateFromOutcome(o)

\* ------------------------------------------------------------ string helpers
\* s.startswith(p)
StartsWith(s, p) == Len(s) >= Len(p) /\ SubSeq(s, 1, Len(p)) = p

\* p in s
Contains(s, p) ==
  \E i \in 1..(Len(s) - Len(p) + 1) : SubSeq(s, i, i + Len(p) - 1) = p

\* index of the first c in s, 0 when there is none
IndexOf(s, c) ==
  IF \E i \in 1..Len(s) : s[i] = c
  THEN CHOOSE i \in 1..Len(s) : s[i] = c /\ \A j \in 1..(i - 1) : s[j] # c
  ELSE 0

\* s.split(c, 1)
SplitOnce(s, c) ==
  LET i == IndexOf(s, c)
  IN IF i = 0 THEN <<s>> ELSE <<SubSeq(s, 1, i - 1), SubSeq(s, i + 1, Len(s))>>

\* s.split(c)
RECURSIVE Split(_, _)
Split(s, c) ==
  LET i == IndexOf(s, c)
  IN IF i = 0 THEN <<s>>
     ELSE <<SubSeq(s, 1, i - 1)>> \o Split(SubSeq(s, i + 1, Len(s)), c)

\* ------------------------------------------------------------ urllib.parse.parse_qs
\* '+' is a space in a query string (payloads here carry no %-escapes)
PlusToSpace(s) == [i \in 1..Len(s) |-> IF s[i] = "+" THEN " " ELSE s[i]]

\* one piece of the query string as a (name, value) pair; a piece without
\* '=' has the value '' (keep_blank_values=True)
QsPair(piece) ==
  [name |-> PlusToSpace(SubSeq(piece, 1,
              IF IndexOf(piece, "=") = 0 THEN Len(piece) ELSE IndexOf(piece, "=") - 1)),
   value |-> IF IndexOf(piece, "=") = 0 THEN <<>>
             ELSE PlusToSpace(SubSeq(piece, IndexOf(piece, "=") + 1, Len(piece)))]

\* parse_qsl(s, keep_blank_values=True): the pairs in order, empty pieces skipped
ParseQsl(s) ==
  LET pieces == SelectSeq(Split(s, "&"), LAMBDA piece : piece # <<>>)
  IN [i \in 1..Len(pieces) |-> QsPair(pieces[i])]

\* parse_qs(s).get(key): the values of key in order (<<>>: key absent)
QsValues(pairs, key) ==
  LET hits == SelectSeq(pairs, LAMBDA pair : pair.name = key)
  IN [i \in 1..Len(hits) |-> hits[i].value]

\* ------------------------------------------------------------ json.loads
\* The JSON read here: an object of string keys with string or unsigned
\* integer values, or a bare string or unsigned integer; no escapes, no
\* nesting.  Anything else is a parse error.
IsDigit(c) == c \in {"0", "1", "2", "3", "4", "5", "6", "7", "8", "9"}

\* first position from i on that holds no digit
RECURSIVE DigitsEnd(_, _)
DigitsEnd(s, i) == IF i <= Len(s) /\ IsDigit(s[i]) THEN DigitsEnd(s, i + 1) ELSE i

\* position of the first '"' from i on, Len(s) + 1 when there is none
RECURSIVE QuoteAt(_, _)
QuoteAt(s, i) == IF i <= Len(s) /\ s[i] # "\"" THEN QuoteAt(s, i + 1) ELSE i

Token(t, v) == [t |-> t, v |-> v]

\* the tokens of s from position i on: punctuation "p", strings "str",
\* numbers "num"; a token "bad" ends the list where no token can start
RECURSIVE JsonTokens(_, _)
JsonTokens(s, i) ==
  IF i > Len(s) THEN <<>>
  ELSE IF IsSpace(s[i]) THEN JsonTokens(s, i + 1)
  ELSE IF s[i] \in {"{", "}", ":", ","}
  THEN <<Token("p", <<s[i]>>)>> \o JsonTokens(s, i + 1)
  ELSE IF s[i] = "\"" /\ QuoteAt(s, i + 1) <= Len(s)
  THEN <<Token("str", SubSeq(s, i + 1, QuoteAt(s, i + 1) - 1))>>
       \o JsonTokens(s, QuoteAt(s, i + 1) + 1)
  ELSE IF IsDigit(s[i])
  THEN <<Token("num", SubSeq(s, i, DigitsEnd(s, i) - 1))>> \o JsonTokens(s, DigitsEnd(s, i))
  ELSE <<Token("bad", <<>>)>>

\* the tokens between the braces are members "key": value separated by commas
JsonMembersOk(inner) ==
  \/ inner = <<>>
  \/ /\ Len(inner) % 4 = 3
     /\ \A m \in 0..(Len(inner) \div 4) :
          /\ inner[4 * m + 1].t = "str"
          /\ inner[4 * m + 2] = Token("p", <<":">>)
          /\ inner[4 * m + 3].t \in {"str", "num"}
          /\ 4 * m + 4 <= Len(inner) => inner[4 * m + 4] = Token("p", <<",">>)

JsonMembersOf(inner) ==
  [m \in 1..((Len(inner) + 1) \div 4) |->
     [key |-> inner[4 * m - 3].v, t |-> inner[4 * m - 1].t, v |-> inner[4 * m - 1].v]]

\* json.loads(s): [ok, isdict, members]; ok = FALSE when it raises
JsonOfTokens(ts) ==
  IF Len(ts) = 1 /\ ts[1].t \in {"str", "num"}
  THEN [ok |-> TRUE, isdict |-> FALSE, members |-> <<>>]
  ELSE IF /\ Len(ts) >= 2
          /\ ts[1] = Token("p", <<"{">>)
          /\ ts[Len(ts)] = Token("p", <<"}">>)
          /\ JsonMembersOk(SubSeq(ts, 2, Len(ts) - 1))
  THEN [ok |-> TRUE, isdict |-> TRUE, members |-> JsonMembersOf(SubSeq(ts, 2, Len(ts) - 1))]
  ELSE [ok |-> FALSE, isdict |-> FALSE, members |-> <<>>]

JsonLoads(s) == JsonOfTokens(JsonTokens(s, 1))

\* obj.get(key): the value of the last member named key; t = "none" when absent
JsonGet(members, key) ==
  IF \E i \in 1..Len(members) : members[i].key = key
  THEN LET i == CHOOSE i \in 1..Len(members) :
                  /\ members[i].key = key
                  /\ \A j \in (i + 1)..Len(members) : members[j].key # key
       IN [t |-> members[i].t, v |-> members[i].v]
  ELSE [t |-> "none", v |-> <<>>]

\* truthiness of a JSON value: a non-empty string, a number other than 0
JsonTruthy(x) ==
  CASE x.t = "str" -> x.v # <<>>
    [] x.t = "num" -> \E i \in 1..Len(x.v) : x.v[i] # "0"
    [] OTHER -> FALSE

\* ------------------------------------------------------------ parse_confirm_reservation_id
CONFIRM_TAG == <<"C", "O", "N", "F", "I", "R", "M", "|">>
RID_EQ == <<"r", "i", "d", "=">>
RESERVATION_ID_EQ == <<"r", "e", "s", "e", "r", "v", "a", "t", "i", "o", "n", "_", "i", "d", "=">>
RID_KEY == <<"r", "i", "d">>
RESERVATION_ID_KEY == <<"r", "e", "s", "e", "r", "v", "a", "t", "i", "o", "n", "_", "i", "d">>

\* the query-string branch: (qs.get("rid") or qs.get("reservation_id") or [""])[0]
QsFirst(rid, res) ==
  IF rid # <<>> THEN rid[1] ELSE IF res # <<>> THEN res[1] ELSE <<>>

ParseQueryString(s) ==
  Strip(QsFirst(QsValues(ParseQsl(s), RID_KEY), QsValues(ParseQsl(s), RESERVATION_ID_KEY)))

\* the JSON branch, given obj = json.loads(s): str(obj.get("rid") or
\* obj.get("reservation_id") or "").strip() for a dict, else fall through to ""
ParseJsonObject(obj) ==
  IF ~(obj.ok /\ obj.isdict) THEN <<>>
  ELSE IF JsonTruthy(JsonGet(obj.members, RID_KEY))
  THEN Strip(JsonGet(obj.members, RID_KEY).v)
  ELSE IF JsonTruthy(JsonGet(obj.members, RESERVATION_ID_KEY))
  THEN Strip(JsonGet(obj.members, RESERVATION_ID_KEY).v)
  ELSE <<>>

\* the three branches on the stripped payload s
ParseStripped(s) ==
  IF StartsWith(s, CONFIRM_TAG) THEN Strip(SplitOnce(s, "|")[2])
  ELSE IF Contains(s, RID_EQ) \/ Contains(s, RESERVATION_ID_EQ) THEN ParseQueryString(s)
  ELSE ParseJsonObject(JsonLoads(s))

parse_confirm_reservation_id(data) ==
  IF data = <<>> THEN <<>> ELSE ParseStripped(Strip(data))

\* ------------------------------------------------------------ confirm_booking_in_gas
\* what the POST to the booking endpoint can do: raise, answer with a body
\* that is no JSON object, or answer with an object
BookingOutcomes ==
  { [kind |-> "request_failed", ok |-> "missing", alreadyConfirmed |-> FALSE],
    [kind |-> "non_json", ok |-> "missing", alreadyConfirmed |-> FALSE],
    [kind |-> "object", ok |-> "missing", alreadyConfirmed |-> FALSE],
    [kind |-> "object", ok |-> "false", alreadyConfirmed |-> FALSE],
    [kind |-> "object", ok |-> "true", alreadyConfirmed |-> FALSE],
    [kind |-> "object", ok |-> "true", alreadyConfirmed |-> TRUE] }

NoRes == [ok |-> "none", alreadyConfirmed |-> FALSE, error |-> ""]

\* the dict confirm_booking_in_gas returns
confirm_booking_in_gas(urlSet, o) ==
  IF ~urlSet
  THEN [ok |-> "false", alreadyConfirmed |-> FALSE, error |-> "GAS_BOOKING_URL_MISSING"]
  ELSE IF o.kind = "request_failed"
  THEN [ok |-> "false", alreadyConfirmed |-> FALSE, error |-> "GAS_REQUEST_FAILED"]
  ELSE IF o.kind = "non_json"
  THEN [ok |-> "false", alreadyConfirmed |-> FALSE, error |-> "GAS_NON_JSON_RESPONSE"]
  ELSE [ok |-> o.ok, alreadyConfirmed |-> o.alreadyConfirmed, error |-> ""]

\* variant: a postback without reservation id is handled like the others
PostbackNeverIgnores(rid) == FALSE

\* `if not rid: return` (line 406)
PostbackIgnores(rid) == rid = <<>>

\* the two fixed replies of handle_postback: the confirmation (a text and a
\* flex bubble, lines 420-434) and the human-escalation message (line 446)
CONFIRMED_TEXT == <<"[marked as confirmed]", "[flex: confirmed]">>
ESCALATION_TEXT == <<"[got your confirmation, update failed, please tell us directly]">>

\* variant: alreadyConfirmed is not looked at
PostbackBranchAlwaysReplies(res) ==
  IF res.ok = "true" THEN "p_reply_ok" ELSE "p_reply_fail"

\* variant: a failed confirmation ends the handler without a reply
PostbackBranchSilentFailure(res) ==
  IF res.ok = "true"
  THEN IF res.alreadyConfirmed THEN "done" ELSE "p_reply_ok"
  ELSE "done"

\* where handle_postback goes with the store's answer
PostbackBranch(res) ==
  IF res.ok = "true"
  THEN IF res.alreadyConfirmed THEN "done" ELSE "p_reply_ok"
  ELSE "p_reply_fail"

\* variant: the success branch falls through to the failure reply
PostbackFallsThrough == "p_reply_fail"

\* the `return` that ends the success branch (line 438)
PostbackAfterOkReply == "done"

\* ------------------------------------------------------------ activity logger
\* log_to_gas: "skipped" when GAS_LINE_LOG_URL is unset, else the POST is made
\* and its outcome o ("ok" or "error") is swallowed by the except clause.
\* The result "raise" stands for an exception leaving the function.
\* variant: the POST is made outside any try block
LogToGasUnguarded(urlSet, o) ==
  IF ~urlSet THEN "skipped"
  ELSE IF o = "error" THEN "raise" ELSE "sent"

log_to_gas(urlSet, o) ==
  IF ~urlSet THEN "skipped"
  ELSE IF o = "error" THEN "caught" ELSE "sent"

\* variant: the sender is left out of the id
EventIdWithoutSender(message_id, sender) ==
  IF message_id # <<>> THEN message_id ELSE <<>>

\* event_id = f"{message_id}:{sender}" if message_id else ""
EventId(message_id, sender) ==
  IF message_id # <<>> THEN message_id \o <<":", sender>> ELSE <<>>

\* event_id of log_postback_event: f"postback:{now_ms}:{sender}"
PostbackEventId(now_ms, sender) == <<"postback", ":", ToString(now_ms), ":", sender>>

\* ------------------------------------------------------------ outbound reply
\* the platform's self-test reply tokens
INVALID_TOKENS ==
  {"00000000000000000000000000000000", "ffffffffffffffffffffffffffffffff"}

\* `if reply_text and reply_token not in invalid_tokens` of the text and the
\* sticker handler; reply_text is None or a string
ShouldSendReply(reply_text, reply_token) ==
  reply_text.t = "text" /\ reply_text.v # <<>> /\ reply_token \notin INVALID_TOKENS

\* variant: reply_message is called outside any try block
ReplyUnguarded(o) == IF o = "error" THEN "raise" ELSE "sent"

\* line_bot_api.reply_message inside try/except: o is "ok" or "error"
TryReply(o) == IF o = "error" THEN "caught" ELSE "sent"

\* ------------------------------------------------------------ reservation state machine
\* The per-user reservation dialogue of the design (section 4.5): the source
\* file at hand holds no code for it, so the session record, the transition
\* table and the submission are taken from the design text.
STEPS == {"idle", "waiting_date", "waiting_time", "waiting_info", "confirming"}

EmptyFields == [date |-> <<>>, time |-> <<>>, name |-> <<>>, phone |-> <<>>, model |-> <<>>]
IdleSession == [step |-> "idle", fields |-> EmptyFields]

USERS == {"U1", "U2"}
InitSessions == [u \in USERS |-> IdleSession]

\* message texts, in chunks: the intent phrase, the confirmation tokens, the
\* full-width slash, and the prompts the dialogue answers with
INTENT_TEXT == <<"[reserve]">>
CONFIRM_TOKENS == {<<"[confirm reservation]">>}
FULLWIDTH_SLASH == "[fullwidth /]"
ASK_DATE == <<"[which date?]">>
ASK_TIME == <<"[which time?]">>
ASK_INFO == <<"[name/phone/model please]">>
ASK_CONFIRM == <<"[please confirm or edit]">>
FORMAT_PROMPT == <<"[format is name/phone/model]">>
SUCCESS_TEXT == <<"[reservation made]">>
RETRY_TEXT == <<"[reservation failed, please retry]">>

\* the full-width slash becomes the ASCII one
NormalizeSlash(text) ==
  [i \in 1..Len(text) |-> IF text[i] = FULLWIDTH_SLASH THEN "/" ELSE text[i]]

InfoParts(text) == Split(NormalizeSlash(text), "/")

\* variant: two parts are taken as enough
EnoughPartsTwo(parts) == Len(parts) >= 2

\* at least name, phone and model
EnoughParts(parts) == Len(parts) >= 3

\* the part at place i, empty when there is none
PartAt(parts, i) == IF i <= Len(parts) THEN parts[i] ELSE <<>>

\* variant: the record is created before the customer is bound
SubmissionCreateFirst(user, fields, bind, create) ==
  << [op |-> "create_reservation", sender |-> user, type |-> "", text |-> fields,
      id |-> <<>>, token |-> "", res |-> create],
     [op |-> "bind_customer", sender |-> user, type |-> "", text |-> fields.phone,
      id |-> <<>>, token |-> "", res |-> bind] >>

\* the two store calls of a submission, in order; bind and create are their
\* outcomes ("ok" or "error"), and a failed bind does not stop the creation
Submission(user, fields, bind, create) ==
  << [op |-> "bind_customer", sender |-> user, type |-> "", text |-> fields.phone,
      id |-> <<>>, token |-> "", res |-> bind],
     [op |-> "create_reservation", sender |-> user, type |-> "", text |-> fields,
      id |-> <<>>, token |-> "", res |-> create] >>

\* one row of the transition table: the session after the text and the
\* reply; submit says whether the store calls are made, handled whether the
\* dialogue took the message (an idle session takes the intent phrase only)
Transition(sess, reply, submit, handled) ==
  [session |-> sess, reply |-> reply, submit |-> submit, handled |-> handled]

ReservationStep(sess, text) ==
  CASE sess.step = "idle" ->
         IF text = INTENT_TEXT
         THEN Transition([step |-> "waiting_date", fields |-> EmptyFields], ASK_DATE, FALSE, TRUE)
         ELSE Transition(sess, <<>>, FALSE, FALSE)
    [] sess.step = "waiting_date" ->
         Transition([step |-> "waiting_time", fields |-> [sess.fields EXCEPT !.date = text]],
                    ASK_TIME, FALSE, TRUE)
    [] sess.step = "waiting_time" ->
         Transition([step |-> "waiting_info", fields |-> [sess.fields EXCEPT !.time = text]],
                    ASK_INFO, FALSE, TRUE)
    [] sess.step = "waiting_info" ->
         IF EnoughParts(InfoParts(text))
         THEN Transition([step |-> "confirming",
                          fields |-> [sess.fields EXCEPT !.name = PartAt(InfoParts(text), 1),
                                                         !.phone = PartAt(InfoParts(text), 2),
                                                         !.model = PartAt(InfoParts(text), 3)]],
                         ASK_CONFIRM, FALSE, TRUE)
         ELSE Transition(sess, FORMAT_PROMPT, FALSE, TRUE)
    [] sess.step = "confirming" ->
         IF text \in CONFIRM_TOKENS
         THEN Transition(IdleSession, SUCCESS_TEXT, TRUE, TRUE)
         ELSE Transition(sess, ASK_CONFIRM, FALSE, TRUE)
    [] OTHER -> Transition(IdleSession, <<>>, FALSE, TRUE)

\* ------------------------------------------------------------ state
VARIABLES
  now,     \* wall clock, ms
  config,  \* process settings read at startup
  store,   \* the user's routing record in the external store
  ev,      \* the event being handled
  pc,      \* position of the handler
  loc,     \* the handler's local variables
  calls,   \* calls made to collaborators while handling ev, in order
  raised,  \* an exception left the handler
  prev,    \* the last booking confirmation the store accepted
  session  \* the reservation session of each user, held in process memory

vars == <<now, config, store, ev, pc, loc, calls, raised, prev, session>>

USER == "U1"
USER_TEXT == <<"h", "i">>

NoText == [t |-> "none", v |-> <<>>]
Text(x) == [t |-> "text", v |-> x]

NoEvent ==
  [kind |-> "none", user_id |-> "", message_id |-> <<>>, text |-> <<>>,
   timestamp |-> PyNone, reply_token |-> "", data |-> <<>>]

NoResp ==
  [kind |-> "none", ok |-> "missing", bot_mode |-> PyNone, owner_agent_id |-> PyNone,
   last_mode_at_ms |-> PyNone]

NoCompletion == [kind |-> "none", content |-> <<>>]

\* the handler's locals; routed, resp and completion keep what the routing
\* lookup and the completion call were answered
InitLoc ==
  [routed |-> FALSE, resp |-> NoResp,
   bot_mode |-> PyNone, owner_agent_id |-> PyNone, last_mode_at_ms |-> PyNone,
   now_ms |-> 0, should_reply |-> FALSE,
   completion |-> NoCompletion, reply_text |-> NoText,
   rid |-> <<>>, res |-> NoRes]

NoPrev == [rid |-> <<>>, replies |-> 0]

\* the calls of one kind made so far for the event
CallsOf(op) == SelectSeq(calls, LAMBDA c : c.op = op)
Replies == CallsOf("reply_message")

Call(op, sender, type, text, id, token, res) ==
  [op |-> op, sender |-> sender, type |-> type, text |-> text, id |-> id,
   token |-> token, res |-> res]

\* event timestamps the platform can deliver at time `t`: none, fresh, late
Timestamps(t) == {PyNone, PyInt(t), PyInt(t - STALE_MS)}
ReplyTokens == INVALID_TOKENS \cup {"tok"}
MESSAGE_ID == <<"M", "1">>

\* postback payloads delivered
Payloads ==
  { <<"C", "O", "N", "F", "I", "R", "M", "|", "R", "1">>,
    <<"a", "c", "t", "i", "o", "n", "=", "c", "o", "n", "f", "i", "r", "m", "&", "r", "i", "d", "=", "R", "2">>,
    <<"{", "\"", "r", "e", "s", "e", "r", "v", "a", "t", "i", "o", "n", "_", "i", "d", "\"", ":", "\"", "R", "1", "\"", "}">>,
    <<"{", "\"", "n", "\"", ":", "\"", "r", "i", "d", "=", "\"", ",", "\"", "r", "i", "d", "\"", ":", "\"", "R", "1", "\"", "}">>,
    <<"C", "O", "N", "F", "I", "R", "M", "|">>,
    <<"h", "e", "l", "l", "o">>,
    <<>> }

Init ==
  /\ now = STALE_MS
  /\ config \in [gas_line_log_url : BOOLEAN, gas_booking_url : BOOLEAN,
                 openai_client : BOOLEAN]
  /\ store = [mode |-> "auto_ai", last |-> PyNone]
  /\ ev = NoEvent
  /\ pc = "idle"
  /\ loc = InitLoc
  /\ calls = <<>>
  /\ raised = FALSE
  /\ prev = NoPrev
  /\ session = InitSessions

\* ------------------------------------------------------------ environment
Tick ==
  /\ pc # "done"
  /\ now < STALE_MS + MaxTicks
  /\ now' = now + 1
  /\ UNCHANGED <<config, store, ev, pc, loc, calls, raised, prev, session>>

\* a human changes the user's mode in the store (LineUsers.bot_mode,
\* last_mode_at_ms); the handler's return takes no time, so the store and
\* the clock move while a handler runs or none does
ModeChange(m) ==
  /\ pc # "done"
  /\ m # store.mode
  /\ store' = [mode |-> m, last |-> PyInt(now)]
  /\ UNCHANGED <<now, config, ev, pc, loc, calls, raised, prev, session>>

\* the answers the store can give to getLineUserRouting
RoutingResponses ==
  { [kind |-> "network_error", ok |-> "missing", bot_mode |-> PyNone,
     owner_agent_id |-> PyNone, last_mode_at_ms |-> PyNone],
    [kind |-> "object", ok |-> "false", bot_mode |-> PyNone,
     owner_agent_id |-> PyNone, last_mode_at_ms |-> PyNone],
    [kind |-> "object", ok |-> "true", bot_mode |-> PyStr(store.mode),
     owner_agent_id |-> PyStr(""), last_mode_at_ms |-> store.last] }

\* ------------------------------------------------------------ handlers: shared steps
\* the webhook delivers an event and the handler for its kind starts
Deliver(kind, ts, tok, data, first) ==
  /\ pc = "idle"
  /\ ev' = [kind |-> kind, user_id |-> USER,
            message_id |-> IF kind = "postback" THEN <<>> ELSE MESSAGE_ID,
            text |-> IF kind = "text" THEN USER_TEXT ELSE <<>>,
            timestamp |-> ts, reply_token |-> tok, data |-> data]
  /\ pc' = first
  /\ loc' = InitLoc
  /\ calls' = <<>>
  /\ prev' = IF kind = "postback" THEN prev ELSE NoPrev
  /\ UNCHANGED <<now, config, store, raised, session>>

\* the handler has returned (or raised) and the process waits for the next
\* delivery.  prev remembers the postback whose confirmation the store took
\* as the first for its reservation, as long as the postbacks that follow
\* are repeats of it
Return ==
  /\ pc = "done"
  /\ pc' = "idle"
  /\ ev' = NoEvent
  /\ loc' = InitLoc
  /\ calls' = <<>>
  /\ raised' = FALSE
  /\ prev' = IF ev.kind = "postback" /\ loc.res.ok = "true"
             THEN IF ~loc.res.alreadyConfirmed
                  THEN [rid |-> loc.rid, replies |-> Len(Replies)]
                  ELSE IF prev.rid = loc.rid THEN prev ELSE NoPrev
             ELSE NoPrev
  /\ UNCHANGED <<now, config, store, session>>

\* an exception leaves the handler
Raise ==
  /\ pc' = "done"
  /\ raised' = TRUE

\* bot_mode, owner_agent_id, last_mode_at_ms = get_line_user_routing(user_id)
\* responses: what the GET can be answered (none is made without URL or user id)
RoutingStepWith(at, next, responses) ==
  /\ pc = at
  /\ IF RoutingRequests(config.gas_line_log_url, ev.user_id)
     THEN \E resp \in responses :
            LET r == get_line_user_routing(config.gas_line_log_url, ev.user_id, resp)
            IN /\ loc' = [loc EXCEPT !.routed = TRUE, !.resp = resp, !.bot_mode = r.mode,
                                     !.owner_agent_id = r.owner,
                                     !.last_mode_at_ms = r.last]
               /\ calls' = Append(calls, Call("get_routing", "", "", <<>>, <<>>, "", resp.kind))
     ELSE LET r == get_line_user_routing(config.gas_line_log_url, ev.user_id, NoResp)
          IN /\ loc' = [loc EXCEPT !.routed = TRUE, !.bot_mode = r.mode,
                                   !.owner_agent_id = r.owner,
                                   !.last_mode_at_ms = r.last]
             /\ UNCHANGED calls
  /\ pc' = next
  /\ UNCHANGED <<now, config, store, ev, raised, prev, session>>

RoutingStep(at, next) == RoutingStepWith(at, next, RoutingResponses)

\* should_reply = should_auto_reply_text(bot_mode, event_ms, last_mode_at_ms)
\* canned: the reply text the handler sets right away when the gate opens
\* (the sticker handler), NoText when it has none
GateStep(at, next, canned) ==
  /\ pc = at
  /\ LET should_reply == should_auto_reply_text(loc.bot_mode, ev.timestamp,
                                                 loc.last_mode_at_ms, now)
     IN loc' = [loc EXCEPT !.now_ms = now, !.should_reply = should_reply,
                           !.reply_text = IF should_reply THEN canned ELSE NoText]
  /\ pc' = next
  /\ UNCHANGED <<now, config, store, ev, calls, raised, prev, session>>

\* log_from_event(event, msg_type, text, sender)
LogStep(at, next, type, text, sender) ==
  /\ pc = at
  /\ \E o \in {"ok", "error"} :
       LET r == log_to_gas(config.gas_line_log_url, o)
       IN /\ calls' = Append(calls, Call("log_to_gas", sender, type, text,
                                         EventId(ev.message_id, sender), "", r))
          /\ IF r = "raise" THEN Raise ELSE pc' = next /\ UNCHANGED raised
  /\ UNCHANGED <<now, config, store, ev, loc, prev, session>>

\* the reply block shared by the text and the sticker handler
ReplyStep(at, next) ==
  /\ pc = at
  /\ IF ShouldSendReply(loc.reply_text, ev.reply_token)
     THEN \E o \in {"ok", "error"} :
            LET r == TryReply(o)
            IN /\ calls' = Append(calls, Call("reply_message", "bot", "text",
                                              loc.reply_text.v, <<>>, ev.reply_token, r))
               /\ IF r = "raise" THEN Raise ELSE pc' = next /\ UNCHANGED raised
     ELSE /\ pc' = next
          /\ UNCHANGED <<calls, raised>>
  /\ UNCHANGED <<now, config, store, ev, loc, prev, session>>

\* variant: the bot record is written only when the reply went out
LogBotOnlyAfterReply(at) ==
  IF pc = at /\ Replies # <<>> /\ Replies[1].res = "sent"
  THEN LogStep(at, "done", "text", loc.reply_text.v, "bot")
  ELSE /\ pc = at
       /\ pc' = "done"
       /\ UNCHANGED <<now, config, store, ev, loc, calls, raised, prev, session>>

\* if reply_text: log_from_event(..., sender="bot")
LogBotStep(at) ==
  IF pc = at /\ loc.reply_text.t = "text" /\ loc.reply_text.v # <<>>
  THEN LogStep(at, "done", "text", loc.reply_text.v, "bot")
  ELSE /\ pc = at
       /\ pc' = "done"
       /\ UNCHANGED <<now, config, store, ev, loc, calls, raised, prev, session>>

\* ------------------------------------------------------------ handle_text_message
DeliverText ==
  \E ts \in Timestamps(now), tok \in ReplyTokens :
    Deliver("text", ts, tok, <<>>, "t_log_user")

TextLogUser == LogStep("t_log_user", "t_routing", "text", ev.text, "user")

TextRouting == RoutingStep("t_routing", "t_gate")

TextGate == GateStep("t_gate", "t_generate", NoText)

\* if should_reply: reply_text = generate_reply_from_openai(user_text)
TextGenerate ==
  /\ pc = "t_generate"
  /\ IF loc.should_reply
     THEN IF config.openai_client
          THEN \E o \in CompletionOutcomes :
                 /\ loc' = [loc EXCEPT !.completion = o, !.reply_text =
                              Text(generate_reply_from_openai(TRUE, o))]
                 /\ calls' = Append(calls, Call("completion", "", "", ev.text, <<>>, "", o.kind))
          ELSE /\ loc' = [loc EXCEPT !.reply_text =
                            Text(generate_reply_from_openai(FALSE, NoCompletion))]
               /\ UNCHANGED calls
     ELSE UNCHANGED <<loc, calls>>
  /\ pc' = "t_reply"
  /\ UNCHANGED <<now, config, store, ev, raised, prev, session>>

TextReply == ReplyStep("t_reply", "t_log_bot")

TextLogBot == LogBotStep("t_log_bot")

handle_text_message ==
  \/ TextLogUser
  \/ TextRouting
  \/ TextGate
  \/ TextGenerate
  \/ TextReply
  \/ TextLogBot

\* ------------------------------------------------------------ handle_sticker_message
DeliverSticker ==
  \E ts \in Timestamps(now), tok \in ReplyTokens :
    Deliver("sticker", ts, tok, <<>>, "s_routing")

StickerRouting == RoutingStep("s_routing", "s_gate")

StickerGate == GateStep("s_gate", "s_reply", Text(STICKER_TEXT))

StickerReply == ReplyStep("s_reply", "s_log_user")

StickerLogUser == LogStep("s_log_user", "s_log_bot", "sticker", <<>>, "user")

StickerLogBot == LogBotStep("s_log_bot")

handle_sticker_message ==
  \/ StickerRouting
  \/ StickerGate
  \/ StickerReply
  \/ StickerLogUser
  \/ StickerLogBot

\* ------------------------------------------------------------ handle_postback
DeliverPostback ==
  \E ts \in Timestamps(now) \ {PyNone}, tok \in ReplyTokens, data \in Payloads :
    Deliver("postback", ts, tok, data, "p_log_user")

\* log_postback_event(user_id, data, sender="user")
PostbackLogUser ==
  /\ pc = "p_log_user"
  /\ \E o \in {"ok", "error"} :
       LET r == log_to_gas(config.gas_line_log_url, o)
       IN /\ calls' = Append(calls, Call("log_to_gas", "user", "postback", ev.data,
                                         PostbackEventId(now, "user"), "", r))
          /\ IF r = "raise" THEN Raise ELSE pc' = "p_confirm" /\ UNCHANGED raised
  /\ UNCHANGED <<now, config, store, ev, loc, prev, session>>

\* variant: the store's mode and the event's age are looked at first, as the
\* text and the sticker handler do
PostbackConfirmGated ==
  /\ pc = "p_confirm"
  /\ LET rid == parse_confirm_reservation_id(ev.data)
     IN IF \/ PostbackIgnores(rid)
           \/ ~should_auto_reply_text(PyStr(store.mode), ev.timestamp, store.last, now)
        THEN /\ pc' = "done"
             /\ UNCHANGED <<loc, calls>>
        ELSE \E o \in BookingOutcomes :
               LET res == confirm_booking_in_gas(config.gas_booking_url, o)
               IN /\ loc' = [loc EXCEPT !.rid = rid, !.res = res]
                  /\ calls' = IF config.gas_booking_url
                              THEN Append(calls, Call("confirm_booking", "", "", <<>>, rid, "", o.kind))
                              ELSE calls
                  /\ pc' = PostbackBranch(res)
  /\ UNCHANGED <<now, config, store, ev, raised, prev, session>>

\* rid = parse_confirm_reservation_id(data); res = confirm_booking_in_gas(rid, user_id)
PostbackConfirm ==
  /\ pc = "p_confirm"
  /\ LET rid == parse_confirm_reservation_id(ev.data)
     IN IF PostbackIgnores(rid)
        THEN /\ pc' = "done"
             /\ UNCHANGED <<loc, calls>>
        ELSE \E o \in BookingOutcomes :
               LET res == confirm_booking_in_gas(config.gas_booking_url, o)
               IN /\ loc' = [loc EXCEPT !.rid = rid, !.res = res]
                  /\ calls' = IF config.gas_booking_url
                              THEN Append(calls, Call("confirm_booking", "", "", <<>>, rid, "", o.kind))
                              ELSE calls
                  /\ pc' = PostbackBranch(res)
  /\ UNCHANGED <<now, config, store, ev, raised, prev, session>>

\* line_bot_api.reply_message(event.reply_token, ...) of either branch
PostbackReply(at, next, text) ==
  /\ pc = at
  /\ \E o \in {"ok", "error"} :
       LET r == TryReply(o)
       IN /\ calls' = Append(calls, Call("reply_message", "bot", "text", text, <<>>,
                                         ev.reply_token, r))
          /\ IF r = "raise" THEN Raise ELSE pc' = next /\ UNCHANGED raised
  /\ UNCHANGED <<now, config, store, ev, loc, prev, session>>

PostbackReplyOk == PostbackReply("p_reply_ok", PostbackAfterOkReply, CONFIRMED_TEXT)

PostbackReplyFail == PostbackReply("p_reply_fail", "done", ESCALATION_TEXT)

handle_postback ==
  \/ PostbackLogUser
  \/ PostbackConfirm
  \/ PostbackReplyOk
  \/ PostbackReplyFail

Next ==
  \/ Tick
  \/ \E m \in MODES : ModeChange(m)
  \/ DeliverText
  \/ DeliverSticker
  \/ DeliverPostback
  \/ Return
  \/ handle_text_message
  \/ handle_sticker_message
  \/ handle_postback

Spec == Init /\ [][Next]_vars

\* ------------------------------------------------------------ the gate on its own
\* should_auto_reply_text applied to every combination of mode, event
\* timestamp, last-mode-change timestamp and clock around the threshold
GateNows == {2 * STALE_MS, 2 * STALE_MS + 1}
GateAges == {15000, 10001, 10000, 9999, 2000, 0, -1}
GateLags == {-1, 0, 1, 2000}
GateStamps(t) == {PyNone, PyOther} \cup {PyInt(t - a) : a \in GateAges}
\* last_mode_at_ms is None or an int: get_line_user_routing hands over nothing else
GateLasts(ts) == {PyNone} \cup {PyInt(ts.n + d) : d \in GateLags}

InitGate ==
  /\ now \in GateNows
  /\ config = [gas_line_log_url |-> TRUE, gas_booking_url |-> TRUE, openai_client |-> TRUE]
  /\ store = [mode |-> "auto_ai", last |-> PyNone]
  /\ \E ts \in GateStamps(now) :
       /\ ev = [NoEvent EXCEPT !.kind = "text", !.user_id = USER, !.timestamp = ts]
       /\ \E m \in MODES, last \in GateLasts(ts) :
            loc = [InitLoc EXCEPT !.bot_mode = PyStr(m), !.last_mode_at_ms = last]
  /\ pc = "t_gate"
  /\ calls = <<>>
  /\ raised = FALSE
  /\ prev = NoPrev
  /\ session = InitSessions

GateEval == GateStep("t_gate", "done", NoText)

NextGate == GateEval

SpecGate == InitGate /\ [][NextGate]_vars

\* ------------------------------------------------------------ the routing lookup on its own
\* get_line_user_routing applied to every shape of answer, with and without
\* a store URL and a user id
JsonModes ==
  {PyNone, PyOther, PyInt(0), PyInt(7), PyStr(""), PyStr("vip")}
    \cup {PyStr(m) : m \in MODES}
JsonLasts == {PyNone, PyOther, PyStr("5"), PyInt(0), PyInt(5)}
JsonOwners == {PyNone, PyStr(""), PyStr("OWNER")}

AllRoutingResponses ==
  { [kind |-> k, ok |-> "missing", bot_mode |-> PyNone, owner_agent_id |-> PyNone,
     last_mode_at_ms |-> PyNone] :
      k \in {"network_error", "http_error", "bad_json", "non_object"} }
  \cup
  { [kind |-> "object", ok |-> ok, bot_mode |-> m, owner_agent_id |-> o,
     last_mode_at_ms |-> l] :
      ok \in {"true", "false", "missing"}, m \in JsonModes, o \in JsonOwners,
      l \in JsonLasts }

InitRouting ==
  /\ now = STALE_MS
  /\ config \in [gas_line_log_url : BOOLEAN, gas_booking_url : {TRUE},
                 openai_client : {TRUE}]
  /\ store = [mode |-> "auto_ai", last |-> PyNone]
  /\ \E uid \in {"", USER} :
       ev = [NoEvent EXCEPT !.kind = "text", !.user_id = uid, !.timestamp = PyInt(now)]
  /\ pc = "t_routing"
  /\ loc = InitLoc
  /\ calls = <<>>
  /\ raised = FALSE
  /\ prev = NoPrev
  /\ session = InitSessions

RoutingLookup == RoutingStepWith("t_routing", "done", AllRoutingResponses)

NextRouting == RoutingLookup

SpecRouting == InitRouting /\ [][NextRouting]_vars

\* ------------------------------------------------------------ the logger on its own
\* log_from_event applied several times to one message, with and without a
\* message id, for each of the senders 'user' / 'bot' / 'agent'
MessageIds == {<<>>, <<"M", "1">>, <<"M", "2">>}
SENDERS == {"user", "bot", "agent"}

InitEventId ==
  /\ now = STALE_MS
  /\ config \in [gas_line_log_url : BOOLEAN, gas_booking_url : {TRUE},
                 openai_client : {TRUE}]
  /\ store = [mode |-> "auto_ai", last |-> PyNone]
  /\ \E mid \in MessageIds :
       ev = [NoEvent EXCEPT !.kind = "text", !.user_id = USER, !.message_id = mid,
                            !.text = USER_TEXT, !.timestamp = PyInt(now)]
  /\ pc = "log"
  /\ loc = InitLoc
  /\ calls = <<>>
  /\ raised = FALSE
  /\ prev = NoPrev
  /\ session = InitSessions

LogRecord ==
  /\ Len(calls) < MaxLogs
  /\ \E sender \in SENDERS : LogStep("log", "log", "text", ev.text, sender)

NextEventId == LogRecord

SpecEventId == InitEventId /\ [][NextEventId]_vars

\* ------------------------------------------------------------ the reservation dialogue on its own
\* Texts of two users taken by the reservation state machine in any order.
\* A text is handled in one piece: the design asks for at most one mutation
\* of a user's session at a time.
DATE_TEXT == <<"2025-12-03">>
TIME_TEXT == <<"14:00">>
INFO_TEXT == <<"Wang", FULLWIDTH_SLASH, "0912345678", "/", "JETSL">>
SHORT_INFO_TEXT == <<"Wang", "/", "0912345678">>

TextsFrom(u) ==
  IF u = USER
  THEN {INTENT_TEXT, DATE_TEXT, TIME_TEXT, INFO_TEXT, SHORT_INFO_TEXT} \cup CONFIRM_TOKENS
  ELSE {INTENT_TEXT}

InitReservation ==
  /\ now = STALE_MS
  /\ config = [gas_line_log_url |-> TRUE, gas_booking_url |-> TRUE, openai_client |-> TRUE]
  /\ store = [mode |-> "auto_ai", last |-> PyNone]
  /\ ev = NoEvent
  /\ pc = "idle"
  /\ loc = InitLoc
  /\ calls = <<>>
  /\ raised = FALSE
  /\ prev = NoPrev
  /\ session = InitSessions

\* a text of user u goes through the dialogue: the session moves along the
\* table, a submission makes its two store calls, and the reply goes out.  A
\* text the dialogue does not take (idle session, no intent phrase) goes the
\* way of handle_text_message and leaves the session alone.
ReceiveText(u, text) ==
  /\ Len(CallsOf("text")) < MaxTexts
  /\ \E bind \in {"ok", "error"}, create \in {"ok", "error"} :
       LET tr == ReservationStep(session[u], text)
       IN /\ ~tr.submit => (bind = "ok" /\ create = "ok")
          /\ session' = [session EXCEPT ![u] = tr.session]
          /\ calls' = calls
               \o <<Call("text", u, "text", text, <<>>, "", "")>>
               \o (IF tr.submit THEN Submission(u, session[u].fields, bind, create) ELSE <<>>)
               \o (IF tr.handled
                   THEN <<Call("reply_message", u, "text",
                               IF tr.submit /\ create = "error" THEN RETRY_TEXT ELSE tr.reply,
                               <<>>, "", "sent")>>
                   ELSE <<>>)
  /\ UNCHANGED <<now, config, store, ev, pc, loc, raised, prev>>

NextReservation == \E u \in USERS : \E text \in TextsFrom(u) : ReceiveText(u, text)

SpecReservation == InitReservation /\ [][NextReservation]_vars

\* ------------------------------------------------------------ properties
MANUAL_MODES == {PyStr("owner_manual"), PyStr("staff_manual")}
BotLogs == SelectSeq(calls, LAMBDA c : c.op = "log_to_gas" /\ c.sender = "bot")
TextOrSticker == ev.kind \in {"text", "sticker"}
GateEvaluated == loc.now_ms > 0

\* C1: the gate answers true exactly when the mode is auto_ai, the event
\* timestamp is a number, the event is at most 10000 ms old and there is no
\* last mode change or the event is not earlier than it; false otherwise.
GateContract ==
  GateEvaluated =>
    (loc.should_reply <=>
       /\ loc.bot_mode = PyStr("auto_ai")
       /\ ev.timestamp.t = "int"
       /\ loc.now_ms - ev.timestamp.n <= 10000
       /\ (loc.last_mode_at_ms = PyNone \/ ev.timestamp.n >= loc.last_mode_at_ms.n))

\* the gate opened for an event exactly 10000 ms old that is not earlier
\* than the last mode change
GateBoundaryWitness ==
  /\ GateEvaluated
  /\ loc.should_reply
  /\ loc.now_ms - ev.timestamp.n = 10000
  /\ loc.last_mode_at_ms.t = "int"

\* C2: when the routing lookup answers owner_manual or staff_manual, the text
\* and the sticker handler make no completion call, no reply attempt and
\* write no bot record, whatever the timestamps.
ManualModeSilence ==
  (TextOrSticker /\ loc.routed /\ loc.bot_mode \in MANUAL_MODES) =>
    /\ CallsOf("completion") = <<>>
    /\ Replies = <<>>
    /\ BotLogs = <<>>

\* a fresh text event with a usable reply token was handled to the end in
\* owner_manual mode
ManualModeWitness ==
  /\ pc = "done"
  /\ ev.kind = "text"
  /\ loc.bot_mode = PyStr("owner_manual")
  /\ ev.timestamp = PyInt(loc.now_ms)
  /\ loc.last_mode_at_ms.t = "int" /\ loc.last_mode_at_ms.n <= ev.timestamp.n
  /\ ev.reply_token \notin INVALID_TOKENS
  /\ config.openai_client

\* C3: in mode auto_ai an event earlier than the last mode change the lookup
\* returned gets no automated reply, also when it is fresh.
EarlierThanModeChangeSilence ==
  (/\ TextOrSticker
   /\ loc.routed
   /\ loc.bot_mode = PyStr("auto_ai")
   /\ ev.timestamp.t = "int"
   /\ loc.last_mode_at_ms.t = "int"
   /\ ev.timestamp.n < loc.last_mode_at_ms.n) =>
    Replies = <<>>

\* a fresh text event earlier than the mode change was handled to the end
EarlierThanModeChangeWitness ==
  /\ pc = "done"
  /\ ev.kind = "text"
  /\ loc.bot_mode = PyStr("auto_ai")
  /\ ev.timestamp.t = "int"
  /\ loc.last_mode_at_ms.t = "int"
  /\ ev.timestamp.n < loc.last_mode_at_ms.n
  /\ loc.now_ms - ev.timestamp.n <= 10000
  /\ ev.reply_token \notin INVALID_TOKENS

\* C4: once the conversation was switched to manual and back to auto_ai at
\* time L, no event earlier than L gets an automated reply, also when its
\* handler was already running: the routing lookup was answered by the store
\* and the reply goes out after the switch.  (Modes only change to another
\* mode and the store starts in auto_ai, so it is in auto_ai with a last mode
\* change L exactly when its last change was a switch back at L.)
NoReplyAfterSwitchBack ==
  [][(/\ TextOrSticker
      /\ loc.resp.kind = "object" /\ loc.resp.ok = "true"
      /\ Len(Replies') > Len(Replies)) =>
       ~(/\ store.mode = "auto_ai"
         /\ store.last.t = "int"
         /\ ev.timestamp.t = "int"
         /\ ev.timestamp.n < store.last.n)]_vars

\* C5: the lookup returns (auto_ai, "", None) on every failure, and its mode
\* is always one of the three, any other or missing mode becoming auto_ai.
RoutingFailOpen ==
  loc.routed =>
    LET failed ==
          \/ ~config.gas_line_log_url
          \/ ev.user_id = ""
          \/ loc.resp.kind \in {"network_error", "http_error", "bad_json", "non_object"}
          \/ loc.resp.ok = "false"
    IN /\ failed => /\ loc.bot_mode = PyStr("auto_ai")
                    /\ loc.owner_agent_id = PyStr("")
                    /\ loc.last_mode_at_ms = PyNone
       /\ loc.bot_mode \in {PyStr("auto_ai"), PyStr("owner_manual"), PyStr("staff_manual")}
       /\ ~failed =>
            loc.bot_mode =
              IF loc.resp.bot_mode \in {PyStr("owner_manual"), PyStr("staff_manual")}
              THEN loc.resp.bot_mode
              ELSE PyStr("auto_ai")

\* the store answered with a mode outside the three and the lookup returned auto_ai
RoutingCoercionWitness ==
  /\ loc.routed
  /\ loc.resp.kind = "object"
  /\ loc.resp.ok = "true"
  /\ loc.resp.bot_mode = PyStr("vip")
  /\ loc.bot_mode = PyStr("auto_ai")

\* C6: of two consecutive postback confirmations of one reservation, the first
\* answered ok and the second (and any later) ok with alreadyConfirmed, the
\* first was replied to once and the repeat gets no reply at all.
RepeatedConfirmationSilent ==
  (/\ pc = "done"
   /\ ev.kind = "postback"
   /\ loc.res.ok = "true"
   /\ loc.res.alreadyConfirmed
   /\ prev.rid = loc.rid) =>
    /\ prev.replies = 1
    /\ Replies = <<>>

\* a repeat of the confirmation that came just before was handled to the end
RepeatedConfirmationWitness ==
  /\ pc = "done"
  /\ ev.kind = "postback"
  /\ loc.rid # <<>>
  /\ loc.res.ok = "true"
  /\ loc.res.alreadyConfirmed
  /\ prev.rid = loc.rid

\* C7: no handler makes a reply attempt with a reserved self-test handle.
ReservedHandleNeverUsed ==
  \A i \in 1..Len(calls) :
    calls[i].op = "reply_message" => calls[i].token \notin INVALID_TOKENS

\* C8: while one event is handled its reply handle goes to the reply call at
\* most once, on every path.
ReplyHandleUsedAtMostOnce ==
  /\ Len(Replies) <= 1
  /\ \A i \in 1..Len(Replies) : Replies[i].token = ev.reply_token

\* a postback was answered ok, the reply call failed and the handler ended
ReplyOnceWitness ==
  /\ pc = "done"
  /\ ev.kind = "postback"
  /\ loc.res.ok = "true"
  /\ Len(Replies) = 1
  /\ Replies[1].res = "caught"

\* C9: whatever fails among the collaborators, no error leaves a handler: a
\* handler is at one of its own steps or has ended without raising.
Positions ==
  [none |-> {"idle"},
   text |-> {"t_log_user", "t_routing", "t_gate", "t_generate", "t_reply", "t_log_bot", "done"},
   sticker |-> {"s_routing", "s_gate", "s_reply", "s_log_user", "s_log_bot", "done"},
   postback |-> {"p_log_user", "p_confirm", "p_reply_ok", "p_reply_fail", "done"}]

NoErrorLeavesHandler ==
  /\ ~raised
  /\ pc \in Positions[ev.kind]

\* a text event was handled to the end although the log write, the routing
\* read, the completion call and the reply call all failed
AllCollaboratorsFailWitness ==
  /\ pc = "done"
  /\ ev.kind = "text"
  /\ \E i \in 1..Len(calls) : calls[i].op = "log_to_gas" /\ calls[i].res = "caught"
  /\ loc.resp.kind = "network_error"
  /\ loc.completion.kind = "error"
  /\ Len(Replies) = 1
  /\ Replies[1].res = "caught"

\* C10: a handler that ends has made the routing lookup and evaluated the
\* gate, and its reply attempt and the text are decided by the event, the
\* routing result and the completion result alone: they are the same whether
\* the log writes succeed or fail.
ExpectedText ==
  IF ev.kind = "sticker" THEN STICKER_TEXT
  ELSE generate_reply_from_openai(config.openai_client, loc.completion)

ExpectedReplies ==
  IF /\ should_auto_reply_text(loc.bot_mode, ev.timestamp, loc.last_mode_at_ms, loc.now_ms)
     /\ ev.reply_token \notin INVALID_TOKENS
  THEN <<[token |-> ev.reply_token, text |-> ExpectedText]>>
  ELSE <<>>

ReplyIndependentOfLog ==
  (pc = "done" /\ TextOrSticker) =>
    /\ loc.routed
    /\ GateEvaluated
    /\ [i \in 1..Len(Replies) |-> [token |-> Replies[i].token, text |-> Replies[i].text]]
         = ExpectedReplies

\* a text event was replied to although the write of the user record failed
ReplyDespiteLogFailureWitness ==
  /\ pc = "done"
  /\ ev.kind = "text"
  /\ calls[1].op = "log_to_gas" /\ calls[1].res = "caught"
  /\ Len(Replies) = 1
  /\ Replies[1].res = "sent"

\* C11: a text event for which the gate opened and whose reply handle is not
\* reserved gets exactly one reply attempt with a non-empty text: the stripped
\* completion, or a fixed text when no completion client is configured, the
\* completion call fails or the completion is blank.
TextReplied == ev.kind = "text" /\ pc \in {"t_log_bot", "done"}

OneNonEmptyReplyWhenPermitted ==
  (TextReplied /\ loc.should_reply /\ ev.reply_token \notin INVALID_TOKENS) =>
    /\ Len(Replies) = 1
    /\ Replies[1].text # <<>>
    /\ ~config.openai_client => Replies[1].text = NO_CLIENT_TEXT
    /\ (config.openai_client /\ loc.completion.kind \in {"error", "none"}) =>
         Replies[1].text = BUSY_TEXT
    /\ (config.openai_client /\ loc.completion.kind = "text") =>
         Replies[1].text =
           IF \A i \in 1..Len(loc.completion.content) : IsSpace(loc.completion.content[i])
           THEN EMPTY_REPLY_TEXT
           ELSE <<"O", "K">>

\* the completion came back blank and the fixed prompt went out in its place
BlankCompletionWitness ==
  /\ pc = "done"
  /\ ev.kind = "text"
  /\ loc.should_reply
  /\ loc.completion.kind = "text"
  /\ loc.completion.content = <<" ", "\n">>
  /\ Len(Replies) = 1
  /\ Replies[1].text = EMPTY_REPLY_TEXT

\* C12: the event id of the records built for one message depends on the
\* message id and the sender alone: records of the same sender carry the same
\* id, records of different senders carry different ids when the message has
\* an id, and every record carries the empty id when the message has none.
EventIdBySender ==
  \A i, j \in 1..Len(calls) :
    /\ calls[i].sender = calls[j].sender => calls[i].id = calls[j].id
    /\ (ev.message_id # <<>> /\ calls[i].sender # calls[j].sender) =>
         calls[i].id # calls[j].id
    /\ ev.message_id = <<>> => calls[i].id = <<>>

\* a user record and a bot record were built for a message that has an id
TwoSendersWitness ==
  /\ Len(calls) = 2
  /\ ev.message_id # <<>>
  /\ calls[1].sender = "user"
  /\ calls[2].sender = "bot"
  /\ calls[1].id = <<"M", "1", ":", "user">>

\* the texts user u has sent so far, and the store calls made for u
TextsOf(u) ==
  LET sent == SelectSeq(calls, LAMBDA c : c.op = "text" /\ c.sender = u)
  IN [i \in 1..Len(sent) |-> sent[i].text]

StoreCallsOf(u) ==
  SelectSeq(calls, LAMBDA c : c.op \in {"bind_customer", "create_reservation"} /\ c.sender = u)

StoreOpsOf(u) == [i \in 1..Len(StoreCallsOf(u)) |-> StoreCallsOf(u)[i].op]

\* the first k texts of u are the start of: intent, a date, a time,
\* name/phone/model, confirmation token
OnReservationPath(t) ==
  /\ Len(t) \in 1..5
  /\ t[1] = INTENT_TEXT
  /\ Len(t) >= 4 => t[4] = INFO_TEXT
  /\ Len(t) >= 5 => t[5] \in CONFIRM_TOKENS

\* C13: a user who has sent intent, date, time, name/phone/model and the
\* confirmation token, in this order and nothing else, has gone through
\* waiting_date, waiting_time, waiting_info, confirming and is idle again;
\* no store call was made before the confirmation, and the confirmation made
\* one bind-customer call and then one create-reservation call with the date,
\* time, name, phone and model entered, whatever the other user sent between.
ReservationEndToEnd ==
  \A u \in USERS :
    LET t == TextsOf(u)
    IN /\ t = <<>> => session[u] = IdleSession
       /\ OnReservationPath(t) =>
            /\ session[u].step =
                 <<"waiting_date", "waiting_time", "waiting_info", "confirming", "idle">>[Len(t)]
            /\ Len(t) < 5 => StoreCallsOf(u) = <<>>
            /\ Len(t) = 5 =>
                 /\ StoreOpsOf(u) = <<"bind_customer", "create_reservation">>
                 /\ StoreCallsOf(u)[1].text = <<"0912345678">>
                 /\ StoreCallsOf(u)[2].text =
                      [date |-> t[2], time |-> t[3], name |-> <<"Wang">>,
                       phone |-> <<"0912345678">>, model |-> <<"JETSL">>]

\* the user went through the whole dialogue while the other user started one
ReservationMadeWitness ==
  /\ TextsOf(USER) = <<INTENT_TEXT, DATE_TEXT, TIME_TEXT, INFO_TEXT, <<"[confirm reservation]">> >>
  /\ TextsOf("U2") # <<>>
  /\ session[USER] = IdleSession
  /\ session["U2"].step = "waiting_date"
  /\ Len(StoreCallsOf(USER)) = 2

\* C14: in waiting_info a text of fewer than 3 parts leaves the session as it
\* is, step and fields, is answered with the format prompt and makes no store
\* call.
ShortInfoKeepsSession ==
  [][\A u \in USERS :
       (/\ session[u].step = "waiting_info"
        /\ Len(calls') > Len(calls)
        /\ calls'[Len(calls) + 1].op = "text"
        /\ calls'[Len(calls) + 1].sender = u
        /\ Len(InfoParts(calls'[Len(calls) + 1].text)) < 3) =>
         /\ session'[u] = session[u]
         /\ calls' = calls \o
              << calls'[Len(calls) + 1],
                 Call("reply_message", u, "text", FORMAT_PROMPT, <<>>, "", "sent") >>]_vars

\* the user sent name/phone without a model and is still asked for the info
ShortInfoWitness ==
  /\ TextsOf(USER) = <<INTENT_TEXT, DATE_TEXT, TIME_TEXT, SHORT_INFO_TEXT>>
  /\ session[USER].step = "waiting_info"
  /\ session[USER].fields = [EmptyFields EXCEPT !.date = DATE_TEXT, !.time = TIME_TEXT]
  /\ calls[Len(calls)].text = FORMAT_PROMPT

\* C15: in the handling of a text or a sticker event the user record is
\* written first, before the routing lookup, the gate and any reply attempt,
\* and a bot record comes after the reply attempt, as the last call.
UserRecordFirst ==
  TextOrSticker =>
    /\ (loc.routed \/ GateEvaluated \/ Replies # <<>>) =>
         /\ calls # <<>>
         /\ calls[1].op = "log_to_gas"
         /\ calls[1].sender = "user"
    /\ \A i \in 1..Len(calls) :
         (calls[i].op = "log_to_gas" /\ calls[i].sender = "bot") =>
           /\ i = Len(calls)
           /\ \A j \in 1..Len(calls) : calls[j].op = "reply_message" => j < i

\* C16: a postback whose payload is empty, unrelated, or a tag without
\* identifier is ignored: no booking-confirm call, no reply attempt.
UnparsablePayloads ==
  { <<>>, <<"h", "e", "l", "l", "o">>, <<"C", "O", "N", "F", "I", "R", "M", "|">> }

UnparsablePostbackIgnored ==
  (ev.kind = "postback" /\ ev.data \in UnparsablePayloads) =>
    /\ CallsOf("confirm_booking") = <<>>
    /\ Replies = <<>>
    /\ loc.res = NoRes
    /\ pc \in {"p_log_user", "p_confirm", "done"}

\* a postback carrying the tag without identifier was handled to the end
TagWithoutIdWitness ==
  /\ pc = "done"
  /\ ev.kind = "postback"
  /\ ev.data = <<"C", "O", "N", "F", "I", "R", "M", "|">>
  /\ config.gas_booking_url
  /\ ev.reply_token \notin INVALID_TOKENS

\* C17: a postback with a reservation id whose confirmation failed (request
\* error, answer that is no JSON, endpoint not set, answer whose ok is not
\* true) gets exactly one reply attempt, with the fixed escalation text.
BookingFailureEscalates ==
  (/\ pc = "done"
   /\ ev.kind = "postback"
   /\ loc.rid # <<>>
   /\ loc.res.ok # "true") =>
    /\ Len(Replies) = 1
    /\ Replies[1].text = ESCALATION_TEXT

\* the booking endpoint is not set and the escalation text went out
EndpointUnsetWitness ==
  /\ pc = "done"
  /\ ev.kind = "postback"
  /\ loc.res.error = "GAS_BOOKING_URL_MISSING"
  /\ Len(Replies) = 1
  /\ Replies[1].res = "sent"

\* what each encoding yields when it is tried on its own on the stripped
\* payload, and the first of them that yields an identifier
PipeYield(s) ==
  IF StartsWith(s, CONFIRM_TAG) THEN Strip(SubSeq(s, Len(CONFIRM_TAG) + 1, Len(s))) ELSE <<>>

QueryYield(s) == ParseQueryString(s)

JsonYield(s) == ParseJsonObject(JsonLoads(s))

FirstYield(s) ==
  IF PipeYield(s) # <<>> THEN PipeYield(s)
  ELSE IF QueryYield(s) # <<>> THEN QueryYield(s)
  ELSE JsonYield(s)

\* C18: the identifier taken from a postback payload is that of the first of
\* the three encodings (tag, query string, JSON object) that yields one, and
\* empty only when none does.
FirstEncodingThatYieldsWins ==
  (pc = "done" /\ ev.kind = "postback") => loc.rid = FirstYield(Strip(ev.data))

\* C19: at the end of the text and the sticker handler a bot record has been
\* handed to the logger exactly when the gate opened and a reply text was
\* produced, with that text, whether or not a reply attempt was made and
\* whether or not it succeeded.
BotRecordFollowsReplyText ==
  (pc = "done" /\ TextOrSticker) =>
    IF loc.should_reply /\ loc.reply_text.t = "text" /\ loc.reply_text.v # <<>>
    THEN /\ Len(BotLogs) = 1
         /\ BotLogs[1].text = loc.reply_text.v
         /\ BotLogs[1].text = ExpectedText
    ELSE /\ BotLogs = <<>>
         /\ ~loc.should_reply

\* a bot record was handed over although the reply was skipped for a
\* reserved handle
BotRecordWithoutReplyWitness ==
  /\ pc = "done"
  /\ ev.kind = "text"
  /\ ev.reply_token \in INVALID_TOKENS
  /\ Replies = <<>>
  /\ Len(BotLogs) = 1
  /\ BotLogs[1].res = "sent"

\* C20: handle_postback makes no routing lookup and evaluates no gate, and
\* for a postback with a reservation id the booking-confirm call and the
\* reply attempt follow from the store's answer alone, whatever the user's
\* mode and the age of the event.
PostbackExpectedReplies ==
  IF loc.res.ok = "true"
  THEN IF loc.res.alreadyConfirmed THEN <<>> ELSE <<CONFIRMED_TEXT>>
  ELSE <<ESCALATION_TEXT>>

PostbackIgnoresRouting ==
  ev.kind = "postback" =>
    /\ ~loc.routed
    /\ ~GateEvaluated
    /\ CallsOf("get_routing") = <<>>
    /\ (pc = "done" /\ parse_confirm_reservation_id(ev.data) # <<>>) =>
         /\ loc.rid = parse_confirm_reservation_id(ev.data)
         /\ Len(CallsOf("confirm_booking")) = IF config.gas_booking_url THEN 1 ELSE 0
         /\ [i \in 1..Len(Replies) |-> Replies[i].text] = PostbackExpectedReplies

\* a confirmation was made and answered for a user in owner_manual mode, for
\* an event more than 10000 ms old
ManualModePostbackWitness ==
  /\ pc = "done"
  /\ ev.kind = "postback"
  /\ store.mode = "owner_manual"
  /\ now - ev.timestamp.n > STALE_MS
  /\ Len(CallsOf("confirm_booking")) = 1
  /\ Len(Replies) = 1
  /\ Replies[1].text = CONFIRMED_TEXT

====
